---- MODULE Spec2Model ----
(***************************************************************************)
(* Model of src/addons.py: the SuperTuxKart addon downloader.              *)
(*                                                                         *)
(* A dictionary of the program (an addon's attributes) is a TLA+ function  *)
(* whose domain is the set of keys that are present, so dict.get(k, d),    *)
(* setdefault and update are modelled by what they do on absent keys.      *)
(* Numeric attributes, which the program keeps as decimal strings and      *)
(* reads with int(), are kept as integers; 'installed' keeps its strings.  *)
(* An addon id is a number: the order of the numbers stands for the        *)
(* lexicographic order of the id strings.                                  *)
(***************************************************************************)
EXTENDS Integers, Sequences, FiniteSets, TLC

\* ------------------------------------------------------------------ bounds
NumIds == 3
\* ids that take part in the inputs of the reconciliation-only specification
NumRecIds == 2
\* the pool size; the program's ThreadPoolExecutor(max_workers=5), scaled down
max_workers == 2
\* the size in bytes of an addon's archive on the server
ArchiveSize == 2

Ids == 1..NumIds
RecIds == 1..NumRecIds

\* ------------------------------------------------------------ dictionaries
Get(d, k, default) == IF k \in DOMAIN d THEN d[k] ELSE default

\* dict d with d[k] = v set (the key is added when absent)
Put(d, k, v) == [x \in DOMAIN d \cup {k} |-> IF x = k THEN v ELSE d[x]]

\* the keys of d restricted to those in ks
Restrict(d, ks) == [x \in DOMAIN d \cap ks |-> d[x]]

\* a.update(b): the keys of b win
Update(a, b) == [x \in DOMAIN a \cup DOMAIN b |-> IF x \in DOMAIN b THEN b[x] ELSE a[x]]

EmptyDict == [x \in {} |-> x]

\* variant: every status counts as approved (C25 must reject it)
ApprovedAlways(status) == TRUE

\* status & 0x1 and status & 0x80
Approved(status) == status % 2 = 1
Featured(status) == (status \div 128) % 2 = 1

\* ------------------------------------------------------------------- disk
get_addon_directory(addon_type) ==
    CASE addon_type = "track" -> "tracks"
      [] addon_type = "kart"  -> "karts"
      [] addon_type = "arena" -> "tracks"

\* addons_dir / get_addon_directory(type) / id
InstallPath(addon_data) == <<get_addon_directory(addon_data.type), addon_data.id>>

Paths == {"tracks", "karts"} \X Ids

\* a path is missing, a directory or a stray regular file
PathKinds == {"missing", "dir", "file"}

\* ------------------------------------------------- the Consistency Check
\* The checks act on a context: the entry under validation (e), the disk (d)
\* and whether an exception is propagating (raised).
_mark_addon_uninstalled(c) ==
    [c EXCEPT !.e = Put(Put(c.e, "installed", "false"), "installed_revision", 0)]

\* shutil.rmtree raises NotADirectoryError on a path that is a regular file
_remove_addon_directory(c) ==
    LET install_path == InstallPath(c.e) IN
    IF c.d[install_path] = "missing" THEN c
    ELSE IF c.d[install_path] = "dir" THEN [c EXCEPT !.d[install_path] = "missing"]
    ELSE [c EXCEPT !.raised = TRUE]

clean_unsupported_format_addons(c, addons_dict) ==
    IF c.e.installed # "false" /\ c.e.type # "kart"
    THEN LET format_id == Get(Get(addons_dict, c.e.id, EmptyDict), "format", 999) IN
         IF format_id <= 5
         THEN _remove_addon_directory(_mark_addon_uninstalled(c))
         ELSE c
    ELSE c

clean_unapproved_addons(c) ==
    LET status == Get(c.e, "status", 1) IN
    IF c.e.installed # "false" /\ ~Approved(status)
    THEN _remove_addon_directory(_mark_addon_uninstalled(c))
    ELSE c

\* variant: the stray file is deleted but the entry is not marked (C7 must reject it)
verify_unlinks_without_marking(c) ==
    LET install_path == InstallPath(c.e) IN
    IF c.e.installed = "false" THEN c
    ELSE IF c.d[install_path] = "dir" THEN c
    ELSE IF c.d[install_path] = "file" THEN [c EXCEPT !.d[install_path] = "missing"]
    ELSE _mark_addon_uninstalled(c)

\* variant: exists() is taken for is_dir() (C10 must reject it)
verify_accepts_any_path(c) ==
    LET install_path == InstallPath(c.e) IN
    IF c.e.installed = "false" THEN c
    ELSE IF c.d[install_path] # "missing" THEN c
    ELSE _mark_addon_uninstalled(c)

verify_addon_installation(c) ==
    LET install_path == InstallPath(c.e) IN
    IF c.e.installed = "false" THEN c
    ELSE IF c.d[install_path] = "dir" THEN c
    ELSE _mark_addon_uninstalled([c EXCEPT !.d[install_path] = "missing"])

\* the three checks in order; an exception of one skips the later ones
validate_addon_data(c, addons_dict) ==
    LET c1 == clean_unsupported_format_addons(c, addons_dict)
        c2 == IF c1.raised THEN c1 ELSE clean_unapproved_addons(c1)
    IN  IF c2.raised THEN c2 ELSE verify_addon_installation(c2)

\* ------------------------------------------------------- reconciliation
\* variant: the installed state of the previous entry is not laid over the fresh
\* entry (C3 must reject it)
_build_addon_metadata_no_overlay(addon_data, installed) ==
    Update(Restrict(addon_data, {"name"}),
           [id |-> addon_data.id,
            status |-> addon_data.status,
            installed |-> "false",
            installed_revision |-> 0,
            icon_revision |-> addon_data.revision,
            type |-> addon_data.type])

\* variant: only the installed flag of the previous entry is laid over the fresh entry,
\* not its revision (C21 must reject it)
_build_addon_metadata_flag_only(addon_data, installed) ==
    Update(Update(Restrict(addon_data, {"name"}),
                  [id |-> addon_data.id,
                   status |-> addon_data.status,
                   installed |-> "false",
                   installed_revision |-> 0,
                   icon_revision |-> addon_data.revision,
                   type |-> addon_data.type]),
           Restrict(installed, {"installed"}))

\* Of the attributes copied from the catalog as they are (name, designer, date, size)
\* the model carries the name, on the entries that are given one.
_build_addon_metadata(addon_data, installed) ==
    Update(Update(Restrict(addon_data, {"name"}),
                  [id |-> addon_data.id,
                   status |-> addon_data.status,
                   installed |-> "false",
                   installed_revision |-> 0,
                   icon_revision |-> addon_data.revision,
                   type |-> addon_data.type]),
           Restrict(installed, {"installed", "installed_revision"}))

\* variant: the loop runs over the ids of the catalog alone (C14 must reject it)
KnownIdsOfCatalog(addons_dict, installed_addons) == DOMAIN addons_dict

\* the ids write_installed_addons loops over
KnownIds(addons_dict, installed_addons) == DOMAIN addons_dict \cup DOMAIN installed_addons

\* one iteration of the loop of write_installed_addons with warn = False
BuildEntry(addon_id, addons_dict, installed_addons) ==
    IF addon_id \notin DOMAIN addons_dict
    THEN installed_addons[addon_id]
    ELSE _build_addon_metadata(addons_dict[addon_id],
                               Get(installed_addons, addon_id, EmptyDict))

\* the whole loop with warn = False, which touches neither the ledger nor the disk
BuildAll(addons_dict, installed_addons) ==
    [addon_id \in KnownIds(addons_dict, installed_addons) |->
        BuildEntry(addon_id, addons_dict, installed_addons)]

\* variant: the types in alphabetical order, arena first (C15 must reject it)
type_priority_alphabetical(addon_type) ==
    CASE addon_type = "arena" -> 1
      [] addon_type = "kart"  -> 2
      [] addon_type = "track" -> 3

type_priority(addon_type) ==
    CASE addon_type = "kart"  -> 1
      [] addon_type = "track" -> 2
      [] addon_type = "arena" -> 3

\* _get_addon_sort_key compared: the three-letter priority, then the id
KeyLess(a, b) ==
    \/ type_priority(a.type) < type_priority(b.type)
    \/ type_priority(a.type) = type_priority(b.type) /\ a.id < b.id

\* addons_to_build.sort(key=_get_addon_sort_key), on the entries of a dict
RECURSIVE SortEntries(_)
SortEntries(built) ==
    IF DOMAIN built = {} THEN <<>>
    ELSE LET first == CHOOSE i \in DOMAIN built :
                        \A j \in DOMAIN built \ {i} : KeyLess(built[i], built[j])
         IN  <<built[first]>> \o SortEntries(Restrict(built, DOMAIN built \ {first}))

\* --------------------------------------------- the escaper and the XML parser
\* A character is its code point, an attribute value or a text a sequence of them.
\* the code points of "!'()+,-./0123456789;ABCDEFGHIJKLMNOPQRSTUVWXYZ[]_abc...xyz|"
safe_chars ==
    {33, 39, 40, 41, 43, 44, 45, 46, 47} \cup (48..57) \cup {59} \cup (65..90)
    \cup {91, 93, 95} \cup (97..122) \cup {124}

\* variant: the hexadecimal digits above 9 in lower case (C17 must reject it)
HexDigitLower(d) == IF d < 10 THEN 48 + d ELSE 87 + d

\* one digit of the format {:X}: "0".."9", "A".."F"
HexDigit(d) == IF d < 10 THEN 48 + d ELSE 55 + d

\* f'{ord(ch):X}': the digits of n to the base 16, without padding
RECURSIVE Hex(_)
Hex(n) == IF n < 16 THEN <<HexDigit(n)>> ELSE Hex(n \div 16) \o <<HexDigit(n % 16)>>

\* f'&#x{ord(ch):X};'
CharacterReference(ch) == <<38, 35, 120>> \o Hex(ch) \o <<59>>

\* variant: the ampersand is written as it is (C16 must reject it)
RECURSIVE _escape_keeps_ampersand(_)
_escape_keeps_ampersand(v) ==
    IF v = <<>> THEN <<>>
    ELSE (IF Head(v) \in safe_chars \cup {38} THEN <<Head(v)>>
          ELSE CharacterReference(Head(v)))
         \o _escape_keeps_ampersand(Tail(v))

\* "".join(ch if ch in safe_chars else f'&#x{ord(ch):X};' for ch in val)
RECURSIVE _escape_stk_attributes(_)
_escape_stk_attributes(v) ==
    IF v = <<>> THEN <<>>
    ELSE (IF Head(v) \in safe_chars THEN <<Head(v)>> ELSE CharacterReference(Head(v)))
         \o _escape_stk_attributes(Tail(v))

\* the characters XML 1.0 allows in a document, which are the ones a parsed attribute
\* can hold and a character reference can name
XmlChar(n) ==
    \/ n \in {9, 10, 13}
    \/ n >= 32 /\ n <= 55295
    \/ n >= 57344 /\ n <= 65533
    \/ n >= 65536 /\ n <= 1114111

\* the value of a digit of the given base (16: in either case), -1 for another character
DigitValue(ch, base) ==
    IF ch \in 48..57 THEN ch - 48
    ELSE IF base = 16 /\ ch \in 65..70 THEN ch - 55
    ELSE IF base = 16 /\ ch \in 97..102 THEN ch - 87
    ELSE -1

\* the number the digits denote, -1 when they are none or not all digits
RECURSIVE NumberOf(_, _)
NumberOf(digits, base) ==
    IF digits = <<>> THEN -1
    ELSE LET last == DigitValue(digits[Len(digits)], base)
             front == SubSeq(digits, 1, Len(digits) - 1)
         IN  IF last = -1 THEN -1
             ELSE IF front = <<>> THEN last
             ELSE LET high == NumberOf(front, base)
                  IN  IF high = -1 THEN -1 ELSE high * base + last

\* the character a reference names, given the text between "&" and ";": &#x..;, &#..;
\* or one of the five predefined entities; -1 when the parser rejects it
ReferenceValue(body) ==
    LET n == IF Len(body) >= 2 /\ body[1] = 35 /\ body[2] = 120
             THEN NumberOf(SubSeq(body, 3, Len(body)), 16)
             ELSE IF Len(body) >= 1 /\ body[1] = 35
             THEN NumberOf(SubSeq(body, 2, Len(body)), 10)
             ELSE IF body = <<97, 109, 112>> THEN 38
             ELSE IF body = <<108, 116>> THEN 60
             ELSE IF body = <<103, 116>> THEN 62
             ELSE IF body = <<113, 117, 111, 116>> THEN 34
             ELSE IF body = <<97, 112, 111, 115>> THEN 39
             ELSE -1
    IN  IF n # -1 /\ XmlChar(n) THEN n ELSE -1

\* What the XML parser (ET.parse) makes of the text of an attribute: references are
\* replaced by their characters, literal tab, newline and return by a space; "<" and a
\* malformed reference are not well-formed ([ok |-> FALSE]).
RECURSIVE ParseAttribute(_)
ParseAttribute(text) ==
    IF text = <<>> THEN [ok |-> TRUE, value |-> <<>>]
    ELSE IF Head(text) = 60 THEN [ok |-> FALSE, value |-> <<>>]
    ELSE IF Head(text) = 38
    THEN LET ends == {p \in 2..Len(text) : text[p] = 59} IN
         IF ends = {} THEN [ok |-> FALSE, value |-> <<>>]
         ELSE LET p == CHOOSE q \in ends : \A r \in ends : q <= r
                  ch == ReferenceValue(SubSeq(text, 2, p - 1))
                  rest == ParseAttribute(SubSeq(text, p + 1, Len(text)))
              IN  IF ch = -1 \/ ~rest.ok THEN [ok |-> FALSE, value |-> <<>>]
                  ELSE [ok |-> TRUE, value |-> <<ch>> \o rest.value]
    ELSE LET rest == ParseAttribute(Tail(text))
             ch == IF Head(text) \in {9, 10, 13} THEN 32 ELSE Head(text)
         IN  IF ~rest.ok THEN rest ELSE [ok |-> TRUE, value |-> <<ch>> \o rest.value]

\* ---------------------------------------------------------------- filters
_filter_default(addon_data) ==
    Get(addon_data, "type", "none") # "kart" \/ Featured(Get(addon_data, "status", 0))

_filter_all(addon_data) == TRUE

_filter_tracks_only(addon_data) == Get(addon_data, "type", "none") # "kart"

get_filter_function(filter_type, addon_data) ==
    CASE filter_type = "all"         -> _filter_all(addon_data)
      [] filter_type = "tracks-only" -> _filter_tracks_only(addon_data)
      [] OTHER                       -> _filter_default(addon_data)

\* variant: an installed addon is never installed again, whatever its revision (C13
\* must reject it)
needs_install_unless_installed(addon_data, ledger) ==
    LET installed == Get(ledger, addon_data.id, EmptyDict) IN
    \/ installed = EmptyDict
    \/ Get(installed, "installed", "none") # "true"

\* the loop of install_addons that fills addons_to_install
needs_install(addon_data, ledger) ==
    LET installed == Get(ledger, addon_data.id, EmptyDict) IN
    \/ installed = EmptyDict
    \/ Get(installed, "installed", "none") # "true"
    \/ Get(installed, "installed_revision", 0) < Get(addon_data, "revision", 0)

Selected(addon_data, ledger, filter_type) ==
    /\ needs_install(addon_data, ledger)
    /\ Approved(Get(addon_data, "status", 0))
    /\ ~(Get(addon_data, "type", "none") # "kart" /\ Get(addon_data, "format", 0) <= 5)
    /\ get_filter_function(filter_type, addon_data)

\* ------------------------------------------------------------------ state
VARIABLES
    addons_dict,        \* the catalog: id -> attributes
    installed_addons,   \* the ledger in memory: id -> attributes
    disk,               \* path -> "missing", "dir" or "file"
    scratch,            \* id -> whether its archive lies in addons_dir/tmp
    installed_xml,      \* the ledger file: [complete, entries]
    lock,               \* the threads inside "with lock"
    pc,                 \* id -> position of the task download_and_extract_addons(id)
    mainPc,             \* position of the main thread
    args,               \* [filter, list_only]
    addons_to_install,  \* the ids selected by install_addons
    status,             \* install_addons' counters [total, completed, error]
    ended,              \* how install_addons ended
    warn,               \* the warn argument of the main thread's write_installed_addons
    addons_to_build,    \* thread -> the entries its write_installed_addons has built
    final,              \* the main thread's write: "none", "running", "persisted", "raised"
    csDone,             \* history: ids whose worker has left the locked section
    before,             \* history: ledger and disk when the final reconciliation began
    checked,            \* history: the applications of validate_addon_data, [in, out]
    download,           \* id -> the response of its download: [header_length, actual_length]
    previous_xml,       \* history: the ledger file as the previous persist left it
    loaded,             \* history: the ledger as get_installed_addons returned it
    tree,               \* path -> what the directory there holds: files of the
                        \* "previous" revision, the files of the "archive"
    feed,               \* get_addons: [items, pos], the elements of addons.xml and the
                        \* position of the iteration
    val,                \* _escape_stk_attributes: the attribute value
    escaped             \* _escape_stk_attributes: the text returned for val

\* the state of get_addons and of the escaper, which the run of the installer leaves alone
pureVars == <<feed, val, escaped>>

vars == <<addons_dict, installed_addons, disk, scratch, installed_xml, lock, pc, mainPc,
          args, addons_to_install, status, ended, warn, addons_to_build,
          final, csDone, before, checked, download, previous_xml, tree, loaded, pureVars>>

\* the main thread's key in addons_to_build; the workers' keys are their addon ids
MainThread == 0
Threads == {MainThread} \cup Ids

Terminal == {"success", "error", "raised"}
Running == {"extract", "lock", "marked", "writing", "unlink"}

\* no download has answered yet
NoResponse == [header_length |-> 0, actual_length |-> 0]

\* what the directories hold before the run: a directory that is there holds the files
\* of the revision installed earlier
TreeOf(dsk) == [path \in Paths |-> IF dsk[path] = "dir" THEN {"previous"} ELSE {}]

\* what is left of the directories when the paths are as in dsk: a path that is no
\* directory any more (shutil.rmtree in _remove_addon_directory) holds nothing
Pruned(files, dsk) == [path \in Paths |-> IF dsk[path] = "dir" THEN files[path] ELSE {}]

\* no ledger file has been persisted yet
NoFile == [complete |-> FALSE, entries |-> <<>>]

\* no addons.xml is being iterated
NoFeed == [items |-> <<>>, pos |-> 1]

\* get_addons and the escaper are not running
NoPureInput == feed = NoFeed /\ val = <<>> /\ escaped = <<>>

\* ------------------------------------------------------------------ inputs
\* Attributes of catalog and ledger entries; the id is added by CatalogOf / LedgerOf.
KartEntry(st) == [type |-> "kart", status |-> st, revision |-> 2]
TrackEntry(fmt) == [type |-> "track", status |-> 1, revision |-> 2, format |-> fmt]
LedgerEntry(ty, st, rev) ==
    [type |-> ty, status |-> st,
     installed |-> IF rev = 0 THEN "false" ELSE "true",
     installed_revision |-> rev, icon_revision |-> 1]

\* What a run may find for one id: its catalog entry and its ledger entry (each absent
\* or one) and its install path. Every id may be a featured kart never installed, each
\* of the first three also a track installed at an older revision; each other
\* situation is given to one id.
RunProfiles(id) ==
    { [cat |-> {KartEntry(129)}, led |-> {}, kind |-> "missing"] }
    \cup
    (IF id \in {1, 2, 3}
     THEN { [cat |-> {TrackEntry(6)}, led |-> {LedgerEntry("track", 1, 1)}, kind |-> "dir"] }
     ELSE {})
    \cup
    CASE id = 1 ->
           \* a kart that is not featured, its install path free or a stray file
           { [cat |-> {KartEntry(1)}, led |-> {}, kind |-> k] : k \in {"missing", "file"} }
      [] id = 2 ->
           \* a track recorded at the latest revision whose directory is gone
           { [cat |-> {TrackEntry(6)}, led |-> {LedgerEntry("track", 1, 2)},
              kind |-> "missing"] }
      [] id = 3 ->
           \* orphans: an approved one in its directory; one not approved, a stray file
           { [cat |-> {}, led |-> {LedgerEntry("track", 1, 1)}, kind |-> "dir"],
             [cat |-> {}, led |-> {LedgerEntry("arena", 0, 1)}, kind |-> "file"] }
      [] OTHER -> {}

The(s) == CHOOSE x \in s : TRUE

CatalogOf(prof) ==
    [id \in {i \in DOMAIN prof : prof[i].cat # {}} |-> Put(The(prof[id].cat), "id", id)]
LedgerOf(prof) ==
    [id \in {i \in DOMAIN prof : prof[i].led # {}} |-> Put(The(prof[id].led), "id", id)]
TypeOf(p) == IF p.cat # {} THEN The(p.cat).type
             ELSE IF p.led # {} THEN The(p.led).type ELSE "track"
DiskOf(prof) ==
    [path \in Paths |->
        IF path[2] \in DOMAIN prof /\ path[1] = get_addon_directory(TypeOf(prof[path[2]]))
        THEN prof[path[2]].kind ELSE "missing"]

Filters == {"default", "all"}

\* the state at the call of install_addons in __main__: ledger loaded, catalog obtained
Init ==
    \E prof \in {f \in [Ids -> UNION {RunProfiles(i) : i \in Ids}] :
                    \A i \in Ids : f[i] \in RunProfiles(i)},
       flt \in Filters, lo \in BOOLEAN :
        \* "all" is drawn where it selects other than "default": with a kart not featured
        /\ flt = "all" => \E i \in Ids : prof[i].cat = {KartEntry(1)}
        /\ addons_dict = CatalogOf(prof)
        /\ installed_addons = LedgerOf(prof)
        /\ disk = DiskOf(prof)
        /\ scratch = [id \in Ids |-> FALSE]
        /\ installed_xml = [complete |-> TRUE, entries |-> SortEntries(LedgerOf(prof))]
        /\ lock = {}
        /\ pc = [id \in Ids |-> "idle"]
        /\ mainPc = "install_addons"
        /\ args = [filter |-> flt, list_only |-> lo]
        /\ addons_to_install = {}
        /\ status = [total |-> 0, completed |-> 0, error |-> 0]
        /\ ended = "none"
        /\ warn = TRUE
        /\ addons_to_build = [t \in Threads |-> EmptyDict]
        /\ final = "none"
        /\ csDone = {}
        /\ before = [ledger |-> EmptyDict, disk |-> DiskOf(prof)]
        /\ checked = {}
        /\ download = [id \in Ids |-> NoResponse]
        /\ tree = TreeOf(disk)
        /\ loaded = installed_addons
        /\ previous_xml = NoFile
        /\ NoPureInput

\* ------------------------------------------------- install_addons (main)
Candidates ==
    {id \in DOMAIN addons_dict : Selected(addons_dict[id], installed_addons, args.filter)}

\* install_addons returns (or is left by an exception) without starting the pool
LeaveInstall(how) ==
    /\ mainPc' = "finally"
    /\ ended' = how
    /\ addons_to_install' = Candidates
    /\ UNCHANGED <<pureVars, loaded, previous_xml, download, tree>>
    /\ UNCHANGED <<addons_dict, installed_addons, disk, scratch, installed_xml, lock, pc,
                   args, status, warn, addons_to_build, final, csDone,
                   before, checked>>

\* "All addons are up to date! Nothing to install."
NothingToInstall ==
    /\ mainPc = "install_addons"
    /\ Candidates = {}
    /\ LeaveInstall("return")

\* --list-only: the candidates are printed and nothing is downloaded
ListOnly ==
    /\ mainPc = "install_addons"
    /\ Candidates # {}
    /\ args.list_only
    /\ LeaveInstall("return")

\* the prompt is answered no, or interrupted
Declined ==
    /\ mainPc = "install_addons"
    /\ Candidates # {}
    /\ ~args.list_only
    /\ \E how \in {"return", "interrupt"} : LeaveInstall(how)

\* an exception leaves the selection loop (an attribute int() cannot read)
SelectionRaises ==
    /\ mainPc = "install_addons"
    /\ LeaveInstall("exception")

\* executor.submit for every candidate
Submit ==
    /\ mainPc = "install_addons"
    /\ Candidates # {}
    /\ ~args.list_only
    /\ mainPc' = "pool"
    /\ addons_to_install' = Candidates
    /\ pc' = [id \in Ids |-> IF id \in Candidates THEN "pending" ELSE "idle"]
    /\ status' = [total |-> Cardinality(Candidates), completed |-> 0, error |-> 0]
    /\ UNCHANGED <<pureVars, loaded, previous_xml, download, tree>>
    /\ UNCHANGED <<addons_dict, installed_addons, disk, scratch, installed_xml, lock, args,
                   ended, warn, addons_to_build, final, csDone, before,
                   checked>>

\* ------------------------------------- download_and_extract_addons (worker)
\* a pool thread is idle: fewer than max_workers tasks are running
PoolHasRoom == Cardinality({i \in Ids : pc[i] \in Running}) < max_workers

\* variant: the locked section is entered without the lock (C2 must reject it)
LockNotChecked == TRUE

\* threading.Lock: acquired only when no thread holds it
LockFree == lock = {}

\* the task of id stands at the step named at and can take it: a pending task needs an
\* idle thread, a task before "with lock:" needs the lock, every other step only
\* needs its thread
Ready(id, at) ==
    /\ pc[id] = at
    /\ at = "pending" => PoolHasRoom
    /\ at = "lock" => LockFree

\* variant: the byte count is not compared with Content-Length (C18 must reject it)
LengthNotVerified(header_length, actual_length) == TRUE

\* download_with_progress: "if header_length > 0: assert actual_length == header_length"
LengthVerified(header_length, actual_length) ==
    header_length > 0 => actual_length = header_length

\* what a server may answer and what arrives before the stream ends: the whole
\* archive without Content-Length (read as 0), and with Content-Length the whole
\* archive or one byte less
Responses ==
    { [header_length |-> 0, actual_length |-> ArchiveSize],
      [header_length |-> ArchiveSize, actual_length |-> ArchiveSize],
      [header_length |-> ArchiveSize, actual_length |-> ArchiveSize - 1] }

\* A thread takes the task and runs it up to the end of the download. The lines before
\* the try may raise (the .zip assertion): the exception reaches the future. In the
\* try, urlopen or the reading may raise (timeout), which the worker catches; else
\* download_with_progress writes the bytes to the .part file, raises when their count
\* is not the declared one, and else renames the .part file to the archive in tmp.
Download(id) ==
    /\ Ready(id, "pending")
    /\ \/ /\ \E outcome \in {"raised", "error"} : pc' = [pc EXCEPT ![id] = outcome]
          /\ UNCHANGED <<scratch, download>>
       \/ \E resp \in Responses :
            IF LengthVerified(resp.header_length, resp.actual_length)
            THEN /\ pc' = [pc EXCEPT ![id] = "extract"]
                 /\ scratch' = [scratch EXCEPT ![id] = TRUE]
                 /\ download' = [download EXCEPT ![id] = resp]
            ELSE /\ pc' = [pc EXCEPT ![id] = "error"]
                 /\ UNCHANGED <<scratch, download>>
    /\ UNCHANGED <<pureVars, loaded, previous_xml, tree>>
    /\ UNCHANGED <<addons_dict, installed_addons, disk, installed_xml, lock, mainPc, args,
                   addons_to_install, status, ended, warn, addons_to_build,
                   final, csDone, before, checked>>

\* variant: the old directory is left in place (C22 must reject it)
rmtree_skipped(kind, files) == files

\* "if extractdir.exists() and extractdir.is_dir(): shutil.rmtree(extractdir)": what
\* the path holds afterwards. rmtree removes everything or raises, and then the task
\* ends in "error" as it does when the extraction raises.
rmtree_if_dir(kind, files) == IF kind = "dir" THEN {} ELSE files

\* zip.extractall(extractdir): the files of the archive are added to what the
\* directory holds; an extraction that raises has not written all of them
extractall(files, ok) == IF ok THEN files \cup {"archive"} ELSE files

\* rmtree of an old directory, mkdir (which raises on a regular file), extraction
\* (which may raise, after mkdir). Whether zipfile can read what is in tmp is left
\* open: a whole archive may be corrupt, and one cut short is most often rejected
\* (BadZipFile) but need not be. The response of the download is of no use once the
\* archive has been read: it is forgotten here.
Extract(id) ==
    /\ Ready(id, "extract")
    /\ LET extractdir == InstallPath(addons_dict[id]) IN
       IF disk[extractdir] = "file"
       THEN /\ pc' = [pc EXCEPT ![id] = "error"]
            /\ disk' = disk
            /\ tree' = tree
            /\ download' = [download EXCEPT ![id] = NoResponse]
       ELSE /\ disk' = [disk EXCEPT ![extractdir] = "dir"]
            /\ \E ok \in BOOLEAN :
                /\ pc' = [pc EXCEPT ![id] = IF ok THEN "lock" ELSE "error"]
                /\ tree' = [tree EXCEPT ![extractdir] =
                               extractall(rmtree_if_dir(disk[extractdir], @), ok)]
                /\ download' = [download EXCEPT ![id] = NoResponse]
    /\ UNCHANGED <<pureVars, loaded, previous_xml>>
    /\ UNCHANGED <<addons_dict, installed_addons, scratch, installed_xml, lock, mainPc,
                   args, addons_to_install, status, ended, warn,
                   addons_to_build, final, csDone, before, checked>>

\* variant: the entry is marked installed but keeps its old revision (C1 must reject it)
MarkInstalledKeepsRevision(ledger, addon_data) ==
    LET entry == Get(ledger, addon_data.id, EmptyDict) IN
    Put(ledger, addon_data.id,
        Put(Put(entry, "installed", "true"),
            "installed_revision", Get(entry, "installed_revision", 0)))

\* installed_addons.setdefault(id, dict())['installed'] = 'true' and the revision
MarkInstalled(ledger, addon_data) ==
    LET entry == Get(ledger, addon_data.id, EmptyDict) IN
    Put(ledger, addon_data.id,
        Put(Put(entry, "installed", "true"), "installed_revision", addon_data.revision))

\* "with lock:" entered and the ledger entry marked
Acquire(id) ==
    /\ Ready(id, "lock")
    /\ lock' = lock \cup {id}
    /\ installed_addons' = MarkInstalled(installed_addons, addons_dict[id])
    /\ pc' = [pc EXCEPT ![id] = "marked"]
    /\ UNCHANGED <<pureVars, loaded, previous_xml, download, tree>>
    /\ UNCHANGED <<addons_dict, disk, scratch, installed_xml, mainPc, args,
                   addons_to_install, status, ended, warn, addons_to_build,
                   final, csDone, before, checked>>

\* tree.write opens installed_xml for writing, which truncates it
Truncated == [complete |-> FALSE, entries |-> <<>>]

\* An element as tree.write serializes it: every attribute value goes through the
\* escaper. A name is a sequence of characters and is escaped; the other values of the
\* model stand for texts of digits and letters, which the escaper leaves as they are.
Serialized(data) ==
    IF "name" \in DOMAIN data THEN [data EXCEPT !.name = _escape_stk_attributes(@)]
    ELSE data

\* the file once the writer has written all of built and closed it
Written(built) ==
    LET sorted == SortEntries(built)
    IN  [complete |-> TRUE, entries |-> [i \in 1..Len(sorted) |-> Serialized(sorted[i])]]

\* write_installed_addons(addons_dict, installed_addons) up to the opening of the file
WorkerWriteOpen(id) ==
    /\ Ready(id, "marked")
    /\ addons_to_build' = [addons_to_build EXCEPT ![id] = BuildAll(addons_dict, installed_addons)]
    /\ installed_xml' = Truncated
    /\ pc' = [pc EXCEPT ![id] = "writing"]
    /\ UNCHANGED <<pureVars, loaded, previous_xml, download, tree>>
    /\ UNCHANGED <<addons_dict, installed_addons, disk, scratch, lock, mainPc, args,
                   addons_to_install, status, ended, warn, final, csDone,
                   before, checked>>

\* the file is written and closed, and the lock released
WorkerWriteClose(id) ==
    /\ Ready(id, "writing")
    /\ installed_xml' = Written(addons_to_build[id])
    /\ addons_to_build' = [addons_to_build EXCEPT ![id] = EmptyDict]
    /\ lock' = lock \ {id}
    /\ csDone' = csDone \cup {id}
    /\ pc' = [pc EXCEPT ![id] = "unlink"]
    /\ UNCHANGED <<pureVars, loaded, previous_xml, download, tree>>
    /\ UNCHANGED <<addons_dict, installed_addons, disk, scratch, mainPc, args,
                   addons_to_install, status, ended, warn, final, before,
                   checked>>

\* the scratch archive is deleted and the task returns "success"
Unlink(id) ==
    /\ Ready(id, "unlink")
    /\ scratch' = [scratch EXCEPT ![id] = FALSE]
    /\ pc' = [pc EXCEPT ![id] = "success"]
    /\ UNCHANGED <<pureVars, loaded, previous_xml, download, tree>>
    /\ UNCHANGED <<addons_dict, installed_addons, disk, installed_xml, lock, mainPc, args,
                   addons_to_install, status, ended, warn, addons_to_build,
                   final, csDone, before, checked>>

\* ------------------------------------------------ the pool, seen from main
\* variant: an exception of a task is not counted (C5 must reject it)
CountDropsExceptions(st, result) ==
    IF result = "success" THEN [st EXCEPT !.completed = @ + 1]
    ELSE IF result = "error" THEN [st EXCEPT !.error = @ + 1]
    ELSE st

\* the counters after a future's result: "success" counts as completed, "error" and
\* an exception of the task as error
Count(st, result) ==
    IF result = "success"
    THEN [st EXCEPT !.completed = @ + 1]
    ELSE [st EXCEPT !.error = @ + 1]

\* the counters after the futures of the tasks in ids have been handed over
RECURSIVE CountAll(_, _)
CountAll(st, ids) ==
    IF ids = {} THEN st
    ELSE LET id == CHOOSE i \in ids : TRUE
         IN  CountAll(Count(st, pc[id]), ids \ {id})

\* shutdown(wait=True) returns when every submitted task has run to its end
Drained == \A id \in addons_to_install : pc[id] \in Terminal

\* "for future in as_completed(...)" runs to its end, which takes every future to be
\* done; the with block ends and install_addons prints the summary and returns
PoolReturn ==
    /\ mainPc = "pool"
    /\ Drained
    /\ status' = CountAll(status, addons_to_install)
    /\ mainPc' = "finally"
    /\ ended' = "return"
    /\ UNCHANGED <<pureVars, loaded, previous_xml, download, tree>>
    /\ UNCHANGED <<addons_dict, installed_addons, disk, scratch, installed_xml, lock, pc,
                   args, addons_to_install, warn, addons_to_build,
                   final, csDone, before, checked>>

\* KeyboardInterrupt in the as_completed loop: the with block is left through
\* ThreadPoolExecutor.__exit__, which is shutdown(wait=True)
PoolInterrupt ==
    /\ mainPc = "pool"
    /\ ended' = "interrupt"
    /\ mainPc' = "shutdown"
    /\ UNCHANGED <<pureVars, loaded, previous_xml, download, tree>>
    /\ UNCHANGED <<addons_dict, installed_addons, disk, scratch, installed_xml, lock, pc,
                   args, addons_to_install, status, warn, addons_to_build,
                   final, csDone, before, checked>>

ShutdownDone ==
    /\ mainPc = "shutdown"
    /\ Drained
    /\ mainPc' = "finally"
    /\ UNCHANGED <<pureVars, loaded, previous_xml, download, tree>>
    /\ UNCHANGED <<addons_dict, installed_addons, disk, scratch, installed_xml, lock, pc,
                   args, addons_to_install, status, ended, warn,
                   addons_to_build, final, csDone, before, checked>>

\* ------------------------------------------- __main__: the finally block
\* "if not args.list_only:" is false: nothing is written and the run ends
FinallyListOnly ==
    /\ mainPc = "finally"
    /\ args.list_only
    /\ mainPc' = "exit"
    /\ UNCHANGED <<pureVars, loaded, previous_xml, download, tree>>
    /\ UNCHANGED <<addons_dict, installed_addons, disk, scratch, installed_xml, lock, pc,
                   args, addons_to_install, status, ended, warn, addons_to_build, final,
                   csDone, before, checked>>

\* the orders in which "for addon_id in set(...)" may visit the ids
Orders(ids) ==
    {order \in [1..Cardinality(ids) -> ids] :
        \A i, j \in 1..Cardinality(ids) : i # j => order[i] # order[j]}

\* The loop of write_installed_addons over the ids in the given order, from the loop
\* state st = [ledger, disk, built, checks, raised]. An orphan is validated in place
\* (the ledger's own dict), a catalog id in a fresh dict; an exception of the
\* validation ends the loop.
RECURSIVE Loop(_, _, _, _)
Loop(order, st, catalog, validate) ==
    IF order = <<>> \/ st.raised THEN st
    ELSE LET addon_id == Head(order)
             c0 == [e |-> BuildEntry(addon_id, catalog, st.ledger),
                    d |-> st.disk, raised |-> FALSE]
             c  == IF validate THEN validate_addon_data(c0, catalog) ELSE c0
         IN  Loop(Tail(order),
                  [ledger |-> IF addon_id \in DOMAIN catalog THEN st.ledger
                              ELSE Put(st.ledger, addon_id, c.e),
                   disk   |-> c.d,
                   built  |-> IF c.raised THEN st.built ELSE Put(st.built, addon_id, c.e),
                   checks |-> IF validate THEN st.checks \cup {[in |-> c0, out |-> c]}
                              ELSE st.checks,
                   raised |-> c.raised],
                  catalog, validate)

\* the loop state at the end of the loop, for every order of the ids
LoopResults(catalog, ledger, dsk, validate) ==
    { Loop(order,
           [ledger |-> ledger, disk |-> dsk, built |-> EmptyDict, checks |-> {},
            raised |-> FALSE],
           catalog, validate) : order \in Orders(KnownIds(catalog, ledger)) }

\* The finally block of __main__ calls write_installed_addons(addons_dict,
\* installed_addons, warn=True); this is the call up to the opening of the file: the
\* loop, the sort, and tree.write's open. An exception of the loop leaves the
\* function, and the run ends in "An error occurred".
MainWriteOpen ==
    /\ mainPc = "finally"
    /\ ~args.list_only
    /\ before' = [ledger |-> installed_addons, disk |-> disk]
    /\ \E r \in LoopResults(addons_dict, installed_addons, disk, warn) :
        /\ installed_addons' = r.ledger
        /\ disk' = r.disk
        /\ tree' = Pruned(tree, r.disk)
        /\ checked' = r.checks
        /\ IF r.raised
           THEN /\ mainPc' = "exit"
                /\ final' = "raised"
                /\ UNCHANGED <<addons_to_build, installed_xml>>
           ELSE /\ mainPc' = "write"
                /\ final' = "running"
                /\ addons_to_build' = [addons_to_build EXCEPT ![MainThread] = r.built]
                /\ installed_xml' = Truncated
    /\ UNCHANGED <<pureVars, loaded, previous_xml, download>>
    /\ UNCHANGED <<addons_dict, scratch, lock, pc, args, addons_to_install, status,
                   ended, warn, csDone>>

\* the file is written and closed; the run ends
MainWriteClose ==
    /\ mainPc = "write"
    /\ installed_xml' = Written(addons_to_build[MainThread])
    /\ mainPc' = "exit"
    /\ final' = "persisted"
    /\ UNCHANGED <<pureVars, loaded, previous_xml, download, tree>>
    /\ UNCHANGED <<addons_dict, installed_addons, disk, scratch, lock, pc, args,
                   addons_to_install, status, ended, warn, addons_to_build,
                   csDone, before, checked>>

Next ==
    \/ NothingToInstall
    \/ ListOnly
    \/ Declined
    \/ SelectionRaises
    \/ Submit
    \/ \E id \in Ids : Download(id)
    \/ \E id \in Ids : Extract(id)
    \/ \E id \in Ids : Acquire(id)
    \/ \E id \in Ids : WorkerWriteOpen(id)
    \/ \E id \in Ids : WorkerWriteClose(id)
    \/ \E id \in Ids : Unlink(id)
    \/ PoolReturn
    \/ PoolInterrupt
    \/ ShutdownDone
    \/ FinallyListOnly
    \/ MainWriteOpen
    \/ MainWriteClose

Spec == Init /\ [][Next]_vars

\* ------------------------------------ a second interrupt, during the shutdown
\* KeyboardInterrupt while ThreadPoolExecutor.__exit__ waits in shutdown(wait=True) for
\* the threads: the wait is abandoned, the exception leaves install_addons and the
\* finally block of __main__ runs, whatever the tasks are doing. Spec above holds the
\* runs with at most one interrupt, SpecInterrupted also the ones with a second one.
ShutdownInterrupt ==
    /\ mainPc = "shutdown"
    /\ mainPc' = "finally"
    /\ UNCHANGED <<pureVars, loaded, previous_xml, download, tree>>
    /\ UNCHANGED <<addons_dict, installed_addons, disk, scratch, installed_xml, lock, pc,
                   args, addons_to_install, status, ended, warn,
                   addons_to_build, final, csDone, before, checked>>

NextInterrupted ==
    \/ Next
    \/ ShutdownInterrupt

SpecInterrupted == Init /\ [][NextInterrupted]_vars

\* ------------------------------- exceptions after the ledger entry was marked
\* write_installed_addons raises in the locked section before the file is opened (a
\* KeyError of _build_addon_metadata for a catalog entry without one of the attributes
\* it copies, a KeyError of the sort key, an OSError of open): "with lock:" releases
\* the lock, "except Exception" returns "error". The mark stays in the ledger.
WorkerWriteRaises(id) ==
    /\ Ready(id, "marked")
    /\ lock' = lock \ {id}
    /\ pc' = [pc EXCEPT ![id] = "error"]
    /\ UNCHANGED <<pureVars, loaded, previous_xml, download, tree>>
    /\ UNCHANGED <<addons_dict, installed_addons, disk, scratch, installed_xml, mainPc,
                   args, addons_to_install, status, ended, warn, addons_to_build,
                   final, csDone, before, checked>>

\* unlink of the archive in tmp raises (the file is gone or may not be removed), after
\* the ledger with the mark was written: "except Exception" returns "error"
UnlinkRaises(id) ==
    /\ Ready(id, "unlink")
    /\ pc' = [pc EXCEPT ![id] = "error"]
    /\ UNCHANGED <<pureVars, loaded, previous_xml, download, tree>>
    /\ UNCHANGED <<addons_dict, installed_addons, disk, scratch, installed_xml, lock,
                   mainPc, args, addons_to_install, status, ended, warn,
                   addons_to_build, final, csDone, before, checked>>

\* Spec above holds the runs in which a task fails, if it does, before "with lock:";
\* SpecWorkerFaults also the ones in which it fails later
NextWorkerFaults ==
    \/ Next
    \/ \E id \in Ids : WorkerWriteRaises(id)
    \/ \E id \in Ids : UnlinkRaises(id)

SpecWorkerFaults == Init /\ [][NextWorkerFaults]_vars

\* --------------------- the reconciliation alone, on a wider range of inputs
ArenaEntry == [type |-> "arena", status |-> 1, revision |-> 2]

\* a ledger entry without a status attribute
NoStatus(entry) == Restrict(entry, DOMAIN entry \ {"status"})

\* a ledger entry as a file not written by this program may hold it: not installed,
\* with the revision of an earlier install left in installed-revision
StaleRevision(entry) == [entry EXCEPT !.installed = "false"]

\* an id of the catalog: installed or not, its path a directory, missing or a file
CatalogProfiles ==
    UNION { { [cat |-> {ce}, led |-> {LedgerEntry(ce.type, 1, 1)}, kind |-> k] :
                k \in PathKinds }
            \cup { [cat |-> {ce}, led |-> {}, kind |-> "missing"],
                   [cat |-> {ce}, led |-> {LedgerEntry(ce.type, 1, 0)}, kind |-> "dir"] }
          : ce \in {KartEntry(1), TrackEntry(5)} }
    \cup { [cat |-> {TrackEntry(6)}, led |-> {LedgerEntry("track", 1, 1)}, kind |-> k] :
             k \in PathKinds }
    \cup { [cat |-> {ArenaEntry}, led |-> {LedgerEntry("arena", 1, 1)}, kind |-> k] :
             k \in {"dir", "missing"} }
    \cup { [cat |-> {TrackEntry(6)}, led |-> {StaleRevision(LedgerEntry("track", 1, 1))},
             kind |-> "missing"] }

\* an id of the ledger alone: approved, not approved or without status
OrphanProfiles ==
    { [cat |-> {}, led |-> {oe}, kind |-> k] :
        oe \in {LedgerEntry("track", 1, 1), LedgerEntry("track", 0, 1),
                NoStatus(LedgerEntry("track", 1, 1))},
        k \in PathKinds }
    \cup { [cat |-> {}, led |-> {LedgerEntry("kart", 0, 1)}, kind |-> k] :
             k \in {"dir", "file"} }
    \cup { [cat |-> {}, led |-> {LedgerEntry("track", 1, 0)}, kind |-> "missing"],
           [cat |-> {}, led |-> {StaleRevision(LedgerEntry("track", 1, 1))},
            kind |-> "missing"] }

RecProfiles ==
    CatalogProfiles \cup OrphanProfiles \cup { [cat |-> {}, led |-> {}, kind |-> "missing"] }

\* write_installed_addons is about to loop over a catalog and a ledger
InitReconcile ==
    \E prof \in [RecIds -> RecProfiles], w \in BOOLEAN :
        /\ addons_dict = CatalogOf(prof)
        /\ installed_addons = LedgerOf(prof)
        /\ disk = DiskOf(prof)
        /\ scratch = [id \in Ids |-> FALSE]
        /\ installed_xml = [complete |-> TRUE, entries |-> SortEntries(LedgerOf(prof))]
        /\ lock = {}
        /\ pc = [id \in Ids |-> "idle"]
        /\ mainPc = "finally"
        /\ args = [filter |-> "default", list_only |-> FALSE]
        /\ addons_to_install = {}
        /\ status = [total |-> 0, completed |-> 0, error |-> 0]
        /\ ended = "return"
        /\ warn = w
        /\ addons_to_build = [t \in Threads |-> EmptyDict]
        /\ final = "none"
        /\ csDone = {}
        /\ before = [ledger |-> EmptyDict, disk |-> DiskOf(prof)]
        /\ checked = {}
        /\ download = [id \in Ids |-> NoResponse]
        /\ tree = TreeOf(disk)
        /\ loaded = installed_addons
        /\ previous_xml = NoFile
        /\ NoPureInput

NextReconcile ==
    \/ MainWriteOpen
    \/ MainWriteClose

SpecReconcile == InitReconcile /\ [][NextReconcile]_vars

\* ----------------------- the selection of install_addons alone, on wider inputs
\* install_addons is a function of a catalog, a ledger and a filter: the catalogs here
\* also hold entries get_addons would not return (without the approved bit).
SelectCatalog ==
    { KartEntry(129), KartEntry(1), KartEntry(128), TrackEntry(6), TrackEntry(5),
      [TrackEntry(6) EXCEPT !.status = 0],
      Restrict(TrackEntry(6), {"type", "status", "revision"}),
      Put(ArenaEntry, "format", 6) }

\* an id of the catalog (revision 2) never installed or installed at that revision; a
\* track also installed at an older or a newer revision or recorded as not installed;
\* an orphan
SelectProfiles ==
    { [cat |-> {ce}, led |-> {}, kind |-> "missing"] : ce \in SelectCatalog }
    \cup { [cat |-> {ce}, led |-> {LedgerEntry(ce.type, 1, 2)}, kind |-> "dir"] :
             ce \in SelectCatalog }
    \cup { [cat |-> {TrackEntry(6)}, led |-> {le}, kind |-> "missing"] :
             le \in { LedgerEntry("track", 1, 1), LedgerEntry("track", 1, 3),
                      LedgerEntry("track", 1, 0),
                      StaleRevision(LedgerEntry("track", 1, 2)) } }
    \cup { [cat |-> {}, led |-> {LedgerEntry("track", 1, 1)}, kind |-> "dir"] }

SelectFilters == {"default", "all", "tracks-only"}

\* the state at the call of install_addons
InitSelect ==
    \E prof \in [RecIds -> SelectProfiles], flt \in SelectFilters, lo \in BOOLEAN :
        /\ addons_dict = CatalogOf(prof)
        /\ installed_addons = LedgerOf(prof)
        /\ disk = DiskOf(prof)
        /\ scratch = [id \in Ids |-> FALSE]
        /\ installed_xml = [complete |-> TRUE, entries |-> SortEntries(LedgerOf(prof))]
        /\ lock = {}
        /\ pc = [id \in Ids |-> "idle"]
        /\ mainPc = "install_addons"
        /\ args = [filter |-> flt, list_only |-> lo]
        /\ addons_to_install = {}
        /\ status = [total |-> 0, completed |-> 0, error |-> 0]
        /\ ended = "none"
        /\ warn = TRUE
        /\ addons_to_build = [t \in Threads |-> EmptyDict]
        /\ final = "none"
        /\ csDone = {}
        /\ before = [ledger |-> EmptyDict, disk |-> DiskOf(prof)]
        /\ checked = {}
        /\ download = [id \in Ids |-> NoResponse]
        /\ tree = TreeOf(disk)
        /\ loaded = installed_addons
        /\ previous_xml = NoFile
        /\ NoPureInput

\* install_addons up to the point where it returns or has handed the candidates to
\* the pool
NextSelect ==
    \/ NothingToInstall
    \/ ListOnly
    \/ Declined
    \/ SelectionRaises
    \/ Submit

SpecSelect == InitSelect /\ [][NextSelect]_vars

\* ------------------------------------------------------------- get_addons
\* the bound on the number of elements of addons.xml
MaxFeed == 3

\* The elements addons.xml may hold, without the attribute that tells two elements
\* apart (FeedsOfLength adds it): elements of one id with the approved bit or not, at
\* revisions 1 and 2 and at -2, which is below the -1 that get_addons starts from;
\* one of them without status; an element of another id; an element without id.
FeedElements ==
    { [tag |-> "track", id |-> 1, status |-> st, revision |-> rev] :
        st \in {0, 1}, rev \in {-2, 1, 2} }
    \cup { [tag |-> "track", id |-> 1, revision |-> 2],
           [tag |-> "kart", id |-> 2, status |-> 1, revision |-> 1],
           [tag |-> "assets"] }

\* the feeds of n elements; "line" is an attribute in which any two elements differ
FeedsOfLength(n) ==
    { [i \in 1..n |-> Put(f[i], "line", i)] : f \in [1..n -> FeedElements] }

\* every variable of the installer at rest, the main thread at the given position
InstallerAtRest(at) ==
    /\ installed_addons = EmptyDict
    /\ disk = [path \in Paths |-> "missing"]
    /\ scratch = [id \in Ids |-> FALSE]
    /\ installed_xml = NoFile
    /\ lock = {}
    /\ pc = [id \in Ids |-> "idle"]
    /\ mainPc = at
    /\ args = [filter |-> "default", list_only |-> FALSE]
    /\ addons_to_install = {}
    /\ status = [total |-> 0, completed |-> 0, error |-> 0]
    /\ ended = "none"
    /\ warn = FALSE
    /\ addons_to_build = [t \in Threads |-> EmptyDict]
    /\ final = "none"
    /\ csDone = {}
    /\ before = [ledger |-> EmptyDict, disk |-> [path \in Paths |-> "missing"]]
    /\ checked = {}
    /\ download = [id \in Ids |-> NoResponse]
    /\ tree = TreeOf(disk)
    /\ loaded = installed_addons
    /\ previous_xml = NoFile

\* get_addons has parsed addons.xml and is about to iterate over its elements
InitFetch ==
    \E n \in 0..MaxFeed : \E items \in FeedsOfLength(n) :
        /\ feed = [items |-> items, pos |-> 1]
        /\ addons_dict = EmptyDict
        /\ val = <<>>
        /\ escaped = <<>>
        /\ InstallerAtRest("get_addons")

\* "int(kept.get('revision', '-1')) <= int(item.get('revision'))"
Replaces(kept_revision, revision) == kept_revision <= revision

\* {'type': item.tag, **dict(item.items())}
CatalogEntry(item) == Put(Restrict(item, DOMAIN item \ {"tag"}), "type", item.tag)

\* one iteration of "for item in addons_etree.iter()"; setdefault leaves an empty
\* dict under an id that had no entry
FetchItem ==
    /\ mainPc = "get_addons"
    /\ feed.pos <= Len(feed.items)
    /\ LET item == feed.items[feed.pos] IN
       /\ feed' = [feed EXCEPT !.pos = @ + 1]
       /\ IF "id" \notin DOMAIN item \/ ~Approved(Get(item, "status", 0))
          THEN addons_dict' = addons_dict
          ELSE LET known == IF item.id \in DOMAIN addons_dict THEN addons_dict
                            ELSE Put(addons_dict, item.id, EmptyDict)
               IN  IF Replaces(Get(known[item.id], "revision", -1), item.revision)
                   THEN addons_dict' = Put(known, item.id, CatalogEntry(item))
                   ELSE addons_dict' = known
    /\ UNCHANGED <<installed_addons, disk, scratch, installed_xml, lock, pc, mainPc, args,
                   addons_to_install, status, ended, warn, addons_to_build, final,
                   csDone, before, checked, download, previous_xml, tree, loaded, val, escaped>>

\* the loop has ended: "Found n approved addons", return addons_dict
FetchReturn ==
    /\ mainPc = "get_addons"
    /\ feed.pos > Len(feed.items)
    /\ mainPc' = "fetched"
    /\ UNCHANGED <<addons_dict, installed_addons, disk, scratch, installed_xml, lock, pc,
                   args, addons_to_install, status, ended, warn, addons_to_build, final,
                   csDone, before, checked, download, previous_xml, tree, loaded, pureVars>>

NextFetch ==
    \/ FetchItem
    \/ FetchReturn

SpecFetch == InitFetch /\ [][NextFetch]_vars

\* --------------- a run whose catalog comes from the feed and installs nothing
\* the feed's elements for id 1, with and without the approved bit and without status,
\* a kart of another id, and an element without id; the revisions are the ones of
\* which get_addons makes an entry
RunFeedElements ==
    { [tag |-> "track", id |-> 1, status |-> st, revision |-> rev, format |-> 6] :
        st \in {0, 1}, rev \in {1, 2} }
    \cup { [tag |-> "track", id |-> 1, revision |-> 2, format |-> 6],
           [tag |-> "kart", id |-> 2, status |-> 1, revision |-> 1],
           [tag |-> "assets"] }

\* what the ledger and the disk hold for id 1: a track recorded installed, its stored
\* status approved, not approved or missing, or recorded not installed, or nothing
RunLedgerProfiles ==
    { [cat |-> {}, led |-> {le}, kind |-> k] :
        le \in {LedgerEntry("track", 1, 1), LedgerEntry("track", 0, 1),
                NoStatus(LedgerEntry("track", 1, 1)), LedgerEntry("track", 1, 0)},
        k \in PathKinds }
    \cup { [cat |-> {}, led |-> {}, kind |-> "missing"] }

\* __main__ has loaded the ledger and get_addons is about to iterate over addons.xml
InitFeedRun ==
    \E n \in 0..MaxFeed : \E f \in [1..n -> RunFeedElements] :
    \E prof \in [{1} -> RunLedgerProfiles] :
        /\ feed = [items |-> [i \in 1..n |-> Put(f[i], "line", i)], pos |-> 1]
        /\ val = <<>>
        /\ escaped = <<>>
        /\ addons_dict = EmptyDict
        /\ installed_addons = LedgerOf(prof)
        /\ disk = DiskOf(prof)
        /\ scratch = [id \in Ids |-> FALSE]
        /\ installed_xml = [complete |-> TRUE, entries |-> SortEntries(LedgerOf(prof))]
        /\ lock = {}
        /\ pc = [id \in Ids |-> "idle"]
        /\ mainPc = "get_addons"
        /\ args = [filter |-> "default", list_only |-> FALSE]
        /\ addons_to_install = {}
        /\ status = [total |-> 0, completed |-> 0, error |-> 0]
        /\ ended = "none"
        /\ warn = TRUE
        /\ addons_to_build = [t \in Threads |-> EmptyDict]
        /\ final = "none"
        /\ csDone = {}
        /\ before = [ledger |-> EmptyDict, disk |-> DiskOf(prof)]
        /\ checked = {}
        /\ download = [id \in Ids |-> NoResponse]
        /\ tree = TreeOf(disk)
        /\ loaded = installed_addons
        /\ previous_xml = NoFile

\* __main__ goes on from get_addons to install_addons
CallInstall ==
    /\ mainPc = "fetched"
    /\ mainPc' = "install_addons"
    /\ UNCHANGED <<addons_dict, installed_addons, disk, scratch, installed_xml, lock, pc,
                   args, addons_to_install, status, ended, warn, addons_to_build, final,
                   csDone, before, checked, download, previous_xml, tree, loaded, pureVars>>

\* the runs in which nothing is installed: no candidate, or the prompt answered no
NextFeedRun ==
    \/ FetchItem
    \/ FetchReturn
    \/ CallInstall
    \/ NothingToInstall
    \/ Declined
    \/ MainWriteOpen
    \/ MainWriteClose

SpecFeedRun == InitFeedRun /\ [][NextFeedRun]_vars

\* ------------------------------------------------ the escaper specification
\* the bound on the length of the attribute values built from EscapeAlphabet
MaxValueLen == 3

\* A & # x ; 2 space and a character beyond the basic plane
EscapeAlphabet == {65, 38, 35, 120, 59, 50, 32, 128512}

\* "A&B C"
ExampleValue == <<65, 38, 66, 32, 67>>

\* The attribute values: every one up to MaxValueLen over EscapeAlphabet, the example,
\* and every single character of ASCII that XML allows, with some beyond ASCII. A
\* value comes out of a parsed document, so it holds no other character.
EscapeValues ==
    UNION { [1..n -> EscapeAlphabet] : n \in 0..MaxValueLen }
    \cup { ExampleValue }
    \cup { <<ch>> : ch \in {9, 10, 13} \cup (32..126) \cup {233, 1632, 8364, 65533} }

\* _escape_stk_attributes is called with an attribute value
InitEscape ==
    \E v \in EscapeValues :
        /\ val = v
        /\ escaped = <<>>
        /\ feed = NoFeed
        /\ addons_dict = EmptyDict
        /\ InstallerAtRest("_escape_stk_attributes")

\* the escaper returns
Escape ==
    /\ mainPc = "_escape_stk_attributes"
    /\ escaped' = _escape_stk_attributes(val)
    /\ mainPc' = "escaped"
    /\ UNCHANGED <<addons_dict, installed_addons, disk, scratch, installed_xml, lock, pc,
                   args, addons_to_install, status, ended, warn, addons_to_build, final,
                   csDone, before, checked, download, previous_xml, tree, loaded, feed, val>>

NextEscape == Escape

SpecEscape == InitEscape /\ [][NextEscape]_vars

\* ------------------------------------- persist, load and persist once more
\* "A", "&#x41;" (the text of a reference, as a name) and "A&B C"
Names == { <<65>>, <<38, 35, 120, 52, 49, 59>>, ExampleValue }

Named(entry, n) == Put(entry, "name", n)

\* ET.parse accepts the file: every attribute text is well-formed
Loadable(file) ==
    \A i \in 1..Len(file.entries) :
        "name" \in DOMAIN file.entries[i] => ParseAttribute(file.entries[i].name).ok

\* the dict get_installed_addons makes of an element: its tag as the type, and its
\* attributes as the parser decoded them
LoadedEntry(item) ==
    IF "name" \in DOMAIN item THEN [item EXCEPT !.name = ParseAttribute(@).value]
    ELSE item

\* get_installed_addons: every element with an id, a later one replacing an earlier one
get_installed_addons(file) ==
    LET at(id) == {i \in 1..Len(file.entries) : file.entries[i].id = id}
        last(id) == CHOOSE i \in at(id) : \A j \in at(id) : j <= i
    IN  [id \in {file.entries[i].id : i \in 1..Len(file.entries)} |->
            LoadedEntry(file.entries[last(id)])]

\* an id of the catalog with a name, recorded or not, its directory there or gone; an
\* id of the ledger alone with a name, installed or not; an arena without a name
RoundTripProfiles ==
    UNION { { [cat |-> {Named(KartEntry(1), n)}, led |-> {}, kind |-> "missing"],
              [cat |-> {Named(KartEntry(1), n)}, led |-> {LedgerEntry("kart", 1, 2)},
               kind |-> "dir"],
              [cat |-> {Named(TrackEntry(6), n)}, led |-> {LedgerEntry("track", 1, 1)},
               kind |-> "dir"],
              [cat |-> {Named(TrackEntry(6), n)}, led |-> {LedgerEntry("track", 1, 2)},
               kind |-> "missing"],
              [cat |-> {}, led |-> {Named(LedgerEntry("track", 1, 1), n)}, kind |-> "dir"],
              [cat |-> {}, led |-> {Named(LedgerEntry("track", 1, 0), n)},
               kind |-> "missing"] }
          : n \in Names }
    \cup { [cat |-> {}, led |-> {LedgerEntry("arena", 1, 1)}, kind |-> "dir"],
           [cat |-> {}, led |-> {}, kind |-> "missing"] }

\* write_installed_addons is about to persist a ledger for the first time
InitRoundTrip ==
    \E prof \in [RecIds -> RoundTripProfiles], w \in BOOLEAN :
        /\ addons_dict = CatalogOf(prof)
        /\ installed_addons = LedgerOf(prof)
        /\ disk = DiskOf(prof)
        /\ scratch = [id \in Ids |-> FALSE]
        /\ installed_xml = NoFile
        /\ lock = {}
        /\ pc = [id \in Ids |-> "idle"]
        /\ mainPc = "finally"
        /\ args = [filter |-> "default", list_only |-> FALSE]
        /\ addons_to_install = {}
        /\ status = [total |-> 0, completed |-> 0, error |-> 0]
        /\ ended = "return"
        /\ warn = w
        /\ addons_to_build = [t \in Threads |-> EmptyDict]
        /\ final = "none"
        /\ csDone = {}
        /\ before = [ledger |-> EmptyDict, disk |-> DiskOf(prof)]
        /\ checked = {}
        /\ download = [id \in Ids |-> NoResponse]
        /\ tree = TreeOf(disk)
        /\ loaded = installed_addons
        /\ previous_xml = NoFile
        /\ NoPureInput

\* The persisted file is kept aside and loaded with get_installed_addons, and the loaded
\* ledger goes to write_installed_addons with the same catalog; a file the parser
\* rejects ends in an exception.
Reload ==
    /\ mainPc = "exit"
    /\ final = "persisted"
    /\ previous_xml = NoFile
    /\ previous_xml' = installed_xml
    /\ IF Loadable(installed_xml)
       THEN /\ installed_addons' = get_installed_addons(installed_xml)
            /\ loaded' = get_installed_addons(installed_xml)
            /\ mainPc' = "finally"
            /\ final' = "none"
       ELSE /\ final' = "raised"
            /\ UNCHANGED <<installed_addons, loaded, mainPc>>
    /\ UNCHANGED <<addons_dict, disk, scratch, installed_xml, lock, pc, args,
                   addons_to_install, status, ended, warn, addons_to_build, csDone,
                   before, checked, download, tree, pureVars>>

NextRoundTrip ==
    \/ MainWriteOpen
    \/ MainWriteClose
    \/ Reload

SpecRoundTrip == InitRoundTrip /\ [][NextRoundTrip]_vars

\* ================================================================== claims
\* the entries of the ledger file that carry the id
FileEntries(id) ==
    {installed_xml.entries[i] : i \in {j \in 1..Len(installed_xml.entries) :
                                         installed_xml.entries[j].id = id}}

\* the ledger file shows the addon installed at the revision of the catalog
Recorded(id) ==
    /\ installed_xml.complete
    /\ FileEntries(id) # {}
    /\ \A e \in FileEntries(id) :
        e.installed = "true" /\ e.installed_revision = addons_dict[id].revision

\* the ledger in memory shows the addon installed at the revision of the catalog
Marked(id) ==
    /\ id \in DOMAIN installed_addons
    /\ installed_addons[id].installed = "true"
    /\ installed_addons[id].installed_revision = addons_dict[id].revision

\* the pool was started and every task returned "success"
AllSucceeded ==
    /\ addons_to_install # {}
    /\ \A id \in addons_to_install : pc[id] = "success"

\* C1: when every candidate handed to the pool has succeeded, the ledger in memory
\* has each of them installed at the candidate's revision, and so has the ledger
\* file whenever it is not being rewritten, whatever the interleaving was.
C1_AllInstalledAfterDrain ==
    AllSucceeded =>
        \A id \in addons_to_install :
            Marked(id) /\ (installed_xml.complete => Recorded(id))

\* more candidates than workers, all succeeded, the run over
C1_Witness ==
    /\ AllSucceeded
    /\ Cardinality(addons_to_install) > max_workers
    /\ mainPc = "exit"
    /\ \A id \in addons_to_install : Recorded(id)

\* C2: at no time are two workers between the start of their ledger mutation and the
\* end of their ledger write, and the worker that is there holds the lock.
C2_MutualExclusion ==
    LET inside == {id \in Ids : pc[id] \in {"marked", "writing"}} IN
    /\ Cardinality(inside) <= 1
    /\ lock = inside

\* a worker is writing the file while another waits for the lock
C2_Witness ==
    \E a, b \in Ids : a # b /\ pc[a] = "writing" /\ pc[b] = "lock"

\* C3: every ledger file a worker has written shows installed, at the candidate's
\* revision, every addon whose worker has left the locked section (the writer's own
\* included: it leaves the section as it closes the file).
C3_WorkerWritesFullSnapshot ==
    (installed_xml.complete /\ final = "none") =>
        \A id \in csDone : Recorded(id)

\* a second worker has written the file while a third task is still under way
C3_Witness ==
    /\ installed_xml.complete
    /\ final = "none"
    /\ Cardinality(csDone) >= 2
    /\ \E id \in addons_to_install : pc[id] \notin Terminal
    /\ \A id \in csDone : Recorded(id)

\* C4: the ledger file holds at every moment a complete ledger, the previous one or
\* the new one, never a partially written one.
C4_PersistAtomic == installed_xml.complete

\* the pool was started
PoolStarted == \E id \in Ids : pc[id] # "idle"

\* some worker can take a step: the guard of one of the worker actions holds
WorkerCanStep == \E id \in Ids : \E at \in {"pending"} \cup Running : Ready(id, at)

\* C5: a failed candidate stops no other one: while a task has no outcome yet some
\* worker can take a step; when the pool has drained every candidate has one outcome;
\* and when install_addons returns from the pool the counters hold the successes and
\* the failures, which add up to the total.
C5_FailuresIsolated ==
    /\ (PoolStarted /\ ~Drained) => WorkerCanStep
    /\ (PoolStarted /\ ended = "return") => Drained
    /\ (PoolStarted /\ ended = "return") =>
        /\ status.total = Cardinality(addons_to_install)
        /\ status.completed = Cardinality({id \in addons_to_install : pc[id] = "success"})
        /\ status.error = Cardinality({id \in addons_to_install : pc[id] \in {"error", "raised"}})
        /\ status.completed + status.error = status.total

\* the pool has drained with a caught failure, an exception of a task and a success
C5_Witness ==
    /\ PoolStarted
    /\ ended = "return"
    /\ \E a, b, c \in addons_to_install :
        pc[a] = "error" /\ pc[b] = "raised" /\ pc[c] = "success"

\* C6: when a run that is not list-only exits, the final write_installed_addons has
\* persisted the ledger, and the file shows installed at its revision every addon
\* whose worker had left the locked section.
C6_FinalPersistRuns ==
    (mainPc = "exit" /\ ~args.list_only) =>
        /\ final = "persisted"
        /\ \A id \in csDone : Recorded(id)

\* What holds of the exit of every run that is not list-only: the final write was
\* entered; it persisted the ledger unless its validation raised; and the file shows
\* every install that left the locked section.
FinalWriteEntered ==
    (mainPc = "exit" /\ ~args.list_only) =>
        /\ final \in {"persisted", "raised"}
        /\ \A id \in csDone : Recorded(id)

\* an interrupted run with a completed install has exited after the final persist
FinalWriteEnteredWitness ==
    /\ mainPc = "exit"
    /\ ended = "interrupt"
    /\ final = "persisted"
    /\ csDone # {}

\* ------------------------------------------ the validating reconciliation
\* the entry of an id as the loop hands it to validate_addon_data
WentIn(id) == BuildEntry(id, addons_dict, before.ledger)

\* the format the format check reads for an id
FormatOf(id) == Get(Get(addons_dict, id, EmptyDict), "format", 999)

Uninstalled(e) == e.installed = "false" /\ e.installed_revision = 0

\* the ledger file shows the id not installed
FileUninstalled(id) ==
    /\ installed_xml.complete
    /\ FileEntries(id) # {}
    /\ \A e \in FileEntries(id) : Uninstalled(e)

FileEntrySet == {installed_xml.entries[i] : i \in 1..Len(installed_xml.entries)}

\* the main thread's write_installed_addons(warn=True) has ended: it has persisted the
\* ledger or it was left by an exception
ValidatingWriteEnded == warn /\ final \in {"persisted", "raised"}

\* C7: the Consistency Check never turns installed from false to true, changes it
\* only from true to false, and a second application to its own result (entry and
\* disk) changes neither.
C7_CheckMonotoneIdempotent ==
    \A k \in checked :
        /\ k.in.e.installed = "false" => k.out.e.installed = "false"
        /\ k.out.e.installed \in {k.in.e.installed, "false"}
        /\ LET again == validate_addon_data([e |-> k.out.e, d |-> k.out.d, raised |-> FALSE],
                                             addons_dict)
           IN  again.e = k.out.e /\ again.d = k.out.d

\* the check has uninstalled an entry whose path was a stray file, and left alone an
\* entry that was not installed
C7_Witness ==
    /\ \E k \in checked :
        /\ k.in.e.installed = "true" /\ k.out.e.installed = "false"
        /\ k.in.d[InstallPath(k.in.e)] = "file" /\ k.out.d[InstallPath(k.in.e)] = "missing"
    /\ \E k \in checked : k.in.e.installed = "false"

\* what C8 says of the ledger and the disk in a given state
FormatCheckEnforced ==
    /\ \A e \in FileEntrySet :
        (e.installed = "true" /\ e.type # "kart") => FormatOf(e.id) > 5
    /\ \A id \in KnownIds(addons_dict, before.ledger) :
        (WentIn(id).installed = "true" /\ WentIn(id).type # "kart" /\ FormatOf(id) <= 5)
            => FileUninstalled(id) /\ disk[InstallPath(WentIn(id))] # "dir"

\* C8: once the validating reconciliation has ended, every entry of the ledger that is
\* installed and no kart has format > 5 in the catalog, and an entry that went in
\* installed, no kart and with catalog format <= 5 is not installed, at revision 0,
\* and its directory is gone.
C8_FormatCheckEnforced == ValidatingWriteEnded => FormatCheckEnforced

\* C8 holds of the reconciliations that persist the ledger
C8_WhenPersisted == (warn /\ final = "persisted") => FormatCheckEnforced

\* a track of format 5 went in installed, in its directory, and the ledger was persisted
C8_PersistedWitness ==
    /\ warn /\ final = "persisted"
    /\ \E id \in DOMAIN addons_dict :
        /\ id \in DOMAIN before.ledger
        /\ WentIn(id).installed = "true" /\ WentIn(id).type = "track" /\ FormatOf(id) = 5
        /\ before.disk[InstallPath(WentIn(id))] = "dir"

\* what C9 says of the ledger and the disk in a given state
ApprovalCheckEnforced ==
    /\ \A e \in FileEntrySet :
        e.installed = "true" => Approved(Get(e, "status", 1))
    /\ \A id \in KnownIds(addons_dict, before.ledger) :
        (WentIn(id).installed = "true" /\ ~Approved(Get(WentIn(id), "status", 1)))
            => FileUninstalled(id) /\ disk[InstallPath(WentIn(id))] # "dir"

\* C9: once the validating reconciliation has ended, every installed entry of the
\* ledger has the approved bit in its status (no status counts as approved), and an
\* entry that went in installed with a status without the bit is not installed, at
\* revision 0, and its directory is gone.
C9_ApprovalCheckEnforced == ValidatingWriteEnded => ApprovalCheckEnforced

\* C9 holds of the reconciliations that persist the ledger
C9_WhenPersisted == (warn /\ final = "persisted") => ApprovalCheckEnforced

\* an orphan that is not approved went in installed, in its directory, and the ledger
\* was persisted
C9_PersistedWitness ==
    /\ warn /\ final = "persisted"
    /\ \E id \in DOMAIN before.ledger :
        /\ WentIn(id).installed = "true" /\ ~Approved(Get(WentIn(id), "status", 1))
        /\ before.disk[InstallPath(WentIn(id))] = "dir"

\* the context after the format check and the approval check
AfterCleaning(c) ==
    LET c1 == clean_unsupported_format_addons(c, addons_dict)
    IN  IF c1.raised THEN c1 ELSE clean_unapproved_addons(c1)

RevisionZeroWhenUninstalled(e) == e.installed = "false" => e.installed_revision = 0

\* the entries the program has produced: those in the ledger in memory, those a
\* write_installed_addons has built, and those of a ledger file it has written
ProducedWellFormed ==
    /\ \A id \in DOMAIN installed_addons : RevisionZeroWhenUninstalled(installed_addons[id])
    /\ \A t \in Threads : \A id \in DOMAIN addons_to_build[t] :
            RevisionZeroWhenUninstalled(addons_to_build[t][id])
    /\ installed_xml.complete => \A e \in FileEntrySet : RevisionZeroWhenUninstalled(e)

\* C11: every entry that write_installed_addons has built (the reconciled ledger) and
\* every entry of a ledger file it has persisted has installed revision 0 when it is
\* not installed.
C11_UninstalledHasRevisionZero ==
    /\ \A id \in DOMAIN addons_to_build[MainThread] :
            RevisionZeroWhenUninstalled(addons_to_build[MainThread][id])
    /\ final = "persisted" => \A e \in FileEntrySet : RevisionZeroWhenUninstalled(e)

\* What holds: in a run whose loaded ledger has revision 0 on every entry that is not
\* installed, every entry in memory, built and written has it, at every moment.
C11_WhenLoadedWellFormed == ProducedWellFormed

\* a run in which an install has marked an entry and the check has reset another one,
\* and the ledger was persisted
C11_WellFormedWitness ==
    /\ final = "persisted"
    /\ csDone # {}
    /\ \E k \in checked : k.in.e.installed = "true" /\ k.out.e.installed = "false"

\* ------------------------------------------------------------ the catalog
\* the positions of the feed's elements of an id that carry the approved bit
ApprovedElements(id) ==
    {i \in 1..Len(feed.items) :
        /\ "id" \in DOMAIN feed.items[i]
        /\ feed.items[i].id = id
        /\ Approved(Get(feed.items[i], "status", 0))}

FeedIds == {feed.items[i].id : i \in {j \in 1..Len(feed.items) : "id" \in DOMAIN feed.items[j]}}

\* the element the catalog has to keep for an id: of maximum revision, and the last
\* of those
IsKept(i, id) ==
    /\ i \in ApprovedElements(id)
    /\ \A j \in ApprovedElements(id) :
        \/ feed.items[j].revision < feed.items[i].revision
        \/ feed.items[j].revision = feed.items[i].revision /\ j <= i

\* what C12 says of the catalog get_addons has returned
CatalogOfFeed ==
    /\ \A id \in DOMAIN addons_dict : Approved(Get(addons_dict[id], "status", 0))
    /\ DOMAIN addons_dict = {id \in FeedIds : ApprovedElements(id) # {}}
    /\ \A id \in DOMAIN addons_dict :
        \E i \in ApprovedElements(id) :
            IsKept(i, id) /\ addons_dict[id] = CatalogEntry(feed.items[i])

\* C12: the catalog get_addons returns holds no element without the approved bit and,
\* for each id with an approved element, exactly the approved element of maximum
\* revision, the later-seen one when revisions are equal.
C12_CatalogKeepsLatest == mainPc = "fetched" => CatalogOfFeed

\* What holds: C12 for the feeds whose revisions are all -1 or more.
C12_WhenRevisionsFromMinusOne ==
    (mainPc = "fetched" /\ \A i \in 1..Len(feed.items) :
                             Get(feed.items[i], "revision", 0) >= -1)
        => CatalogOfFeed

\* a feed with an unapproved element of the highest revision and two approved
\* elements of equal revision, the second of which was kept
C12_RevisionsWitness ==
    /\ mainPc = "fetched"
    /\ \A i \in 1..Len(feed.items) : Get(feed.items[i], "revision", 0) >= -1
    /\ \E id \in DOMAIN addons_dict : \E i, j, k \in 1..Len(feed.items) :
        /\ i < j /\ {i, j} \subseteq ApprovedElements(id)
        /\ feed.items[i].revision = feed.items[j].revision
        /\ Get(feed.items[k], "id", 0) = id /\ Get(feed.items[k], "status", 0) = 0
        /\ feed.items[k].revision > feed.items[j].revision
        /\ addons_dict[id] = CatalogEntry(feed.items[j])

\* ---------------------------------------------------------- the selection
\* the ledger records the id installed at the revision of the catalog or a later one
InstalledAtLatest(id) ==
    /\ id \in DOMAIN installed_addons
    /\ installed_addons[id].installed = "true"
    /\ installed_addons[id].installed_revision >= addons_dict[id].revision

\* what C13 says makes a catalog entry a candidate
IsCandidate(id) ==
    LET entry == addons_dict[id] IN
    /\ get_filter_function(args.filter, entry)
    /\ ~InstalledAtLatest(id)
    /\ Approved(entry.status)
    /\ entry.type # "kart" => ("format" \in DOMAIN entry /\ entry.format > 5)

\* install_addons has made its selection (no exception has cut the loop short)
SelectionMade == mainPc \in {"finally", "pool"} /\ ended # "exception"

\* C13: the candidates install_addons selects are exactly the catalog entries that
\* the filter accepts, that the ledger does not record installed at the catalog's
\* revision or a later one, that have the approved bit and, when no kart, a format
\* above 5.
C13_SelectionExact ==
    SelectionMade => addons_to_install = {id \in DOMAIN addons_dict : IsCandidate(id)}

\* a selection that took one track to update and left out an installed track at a
\* newer revision, a track of format 5 or without the approved bit, or a kart that the
\* filter refused
C13_Witness ==
    /\ SelectionMade
    /\ \E a, b \in DOMAIN addons_dict :
        /\ a \in addons_to_install /\ b \notin addons_to_install
        /\ a \in DOMAIN installed_addons
        /\ installed_addons[a].installed = "true"
        /\ installed_addons[a].installed_revision < addons_dict[a].revision
        /\ \/ InstalledAtLatest(b) /\ installed_addons[b].installed_revision > addons_dict[b].revision
           \/ ~InstalledAtLatest(b) /\ addons_dict[b].type = "track"
                /\ (Get(addons_dict[b], "format", 0) = 5 \/ ~Approved(addons_dict[b].status))
           \/ ~InstalledAtLatest(b) /\ addons_dict[b].type = "kart"
                /\ Approved(addons_dict[b].status) /\ ~Featured(addons_dict[b].status)

\* ------------------------------------------------- what the ledger file holds
FileIds == {e.id : e \in FileEntrySet}

\* the ids of the ledger that the catalog does not have
OrphanIds == DOMAIN installed_addons \ DOMAIN addons_dict

\* the ledger file was written by this run: by a worker or by the final write
WrittenByRun == installed_xml.complete /\ (csDone # {} \/ final = "persisted")

\* C14: no write drops an entry: whenever the ledger file is complete it holds each id
\* once and every orphan of the ledger, and a file that this run has written holds
\* exactly the ids of the catalog and of the ledger.
C14_NoEntryDropped ==
    installed_xml.complete =>
        /\ Len(installed_xml.entries) = Cardinality(FileIds)
        /\ OrphanIds \subseteq FileIds
        /\ WrittenByRun => FileIds = DOMAIN addons_dict \cup DOMAIN installed_addons

\* two workers and the final write have written the file, which still holds the
\* orphan and holds the ids that were installed
C14_Witness ==
    /\ installed_xml.complete
    /\ final = "persisted"
    /\ Cardinality(csDone) >= 2
    /\ OrphanIds # {}
    /\ OrphanIds \subseteq FileIds
    /\ csDone \subseteq FileIds

\* the order C15 gives the types
TypeOrder == <<"kart", "track", "arena">>

RankOfType(addon_type) == CHOOSE r \in 1..Len(TypeOrder) : TypeOrder[r] = addon_type

\* C15: in every ledger file this run has written the entries stand in the order of
\* their types, kart before track before arena, and within one type in the order of
\* their ids.
C15_PersistedSorted ==
    WrittenByRun =>
        \A i, j \in 1..Len(installed_xml.entries) :
            i < j =>
                LET a == installed_xml.entries[i]
                    b == installed_xml.entries[j]
                IN  \/ RankOfType(a.type) < RankOfType(b.type)
                    \/ RankOfType(a.type) = RankOfType(b.type) /\ a.id < b.id

\* a written file with two karts followed by a track or an arena, in which an entry
\* of a higher id stands before one of a lower id
C15_Witness ==
    /\ WrittenByRun
    /\ \E i, j, k \in 1..Len(installed_xml.entries) :
        /\ i < j /\ j < k
        /\ installed_xml.entries[i].type = "kart" /\ installed_xml.entries[j].type = "kart"
        /\ installed_xml.entries[k].type \in {"track", "arena"}
    /\ \E i, j \in 1..Len(installed_xml.entries) :
        /\ i < j
        /\ installed_xml.entries[i].id > installed_xml.entries[j].id

\* ------------------------------------------------------------ the escaper
\* the characters C17 lists as emitted unchanged: digits, ASCII letters and
\* ! ' ( ) + , - . / ; [ ] _ |
EmittedUnchanged ==
    (48..57) \cup (65..90) \cup (97..122)
    \cup {33, 39, 40, 41, 43, 44, 45, 46, 47, 59, 91, 93, 95, 124}

\* the value of a text of upper-case hexadecimal digits, -1 for any other text
RECURSIVE UpperHexValue(_)
UpperHexValue(h) ==
    IF h = <<>> THEN -1
    ELSE LET d == h[Len(h)]
             last == IF d \in 48..57 THEN d - 48 ELSE IF d \in 65..70 THEN d - 55 ELSE -1
             front == SubSeq(h, 1, Len(h) - 1)
         IN  IF last = -1 THEN -1
             ELSE IF front = <<>> THEN last
             ELSE IF UpperHexValue(front) = -1 THEN -1
             ELSE UpperHexValue(front) * 16 + last

\* the text is "&#x", the code point of ch in upper-case hexadecimal without padding,
\* and ";"
IsReferenceTo(text, ch) ==
    /\ Len(text) >= 5
    /\ SubSeq(text, 1, 3) = <<38, 35, 120>>
    /\ text[Len(text)] = 59
    /\ LET h == SubSeq(text, 4, Len(text) - 1)
       IN  UpperHexValue(h) = ch /\ (Len(h) > 1 => h[1] # 48)

\* the text is, character by character of v, the character itself when C17 lists it
\* and a reference to it when not
RECURSIVE EscapesTo(_, _)
EscapesTo(v, text) ==
    IF v = <<>> THEN text = <<>>
    ELSE IF Head(v) \in EmittedUnchanged
    THEN text # <<>> /\ Head(text) = Head(v) /\ EscapesTo(Tail(v), Tail(text))
    ELSE \E n \in 5..Len(text) :
            /\ IsReferenceTo(SubSeq(text, 1, n), Head(v))
            /\ EscapesTo(Tail(v), SubSeq(text, n + 1, Len(text)))

\* C17: the escaper emits unchanged exactly the digits, the ASCII letters and the
\* listed punctuation, and every other character as "&#x", its code point in
\* upper-case hexadecimal without padding, and ";"; "A&B C" comes out as
\* "A&#x26;B&#x20;C"; and the XML parser reads the original value back from the output.
C17_EscaperExact ==
    mainPc = "escaped" =>
        /\ EscapesTo(val, escaped)
        /\ val = ExampleValue =>
             escaped = <<65, 38, 35, 120, 50, 54, 59, 66, 38, 35, 120, 50, 48, 59, 67>>
        /\ ParseAttribute(escaped) = [ok |-> TRUE, value |-> val]

\* a value that holds the text of a reference has been escaped, each of its
\* characters "&" and "#" as its own reference
C17_Witness ==
    /\ mainPc = "escaped"
    /\ val = <<38, 35, 120>>
    /\ escaped = <<38, 35, 120, 50, 54, 59, 38, 35, 120, 50, 51, 59, 120>>

\* ---- C16
\* some entry of the file carries a name written with a character reference
NameEscaped(file) ==
    \E i \in 1..Len(file.entries) :
        /\ "name" \in DOMAIN file.entries[i]
        /\ 38 \in {file.entries[i].name[k] : k \in 1..Len(file.entries[i].name)}

\* C16: serialization is stable. Once a persisted file was loaded and the loaded ledger
\* went to the persist again with the same catalog, the run ends with the file
\* written, and the file is the one the first persist wrote, entry for entry and
\* character for character.
C16_RoundTripStable ==
    (previous_xml # NoFile /\ mainPc = "exit") =>
        (final = "persisted" /\ installed_xml = previous_xml)

\* the second persist has ended on a file that holds an escaped name, an entry of the
\* catalog and an entry of the ledger alone
C16_Witness ==
    /\ previous_xml # NoFile
    /\ mainPc = "exit"
    /\ final = "persisted"
    /\ NameEscaped(installed_xml)
    /\ DOMAIN addons_dict # {}
    /\ DOMAIN installed_addons \ DOMAIN addons_dict # {}
    /\ \E id \in DOMAIN addons_dict : addons_dict[id].name # ExampleValue

\* ---- C18
\* the task of id leaves the extraction for the locked section: the archive in tmp was
\* extracted into the install path
ExtractionCompleted(id) == pc[id] # "lock" /\ pc'[id] = "lock"

\* the order of the steps that follow the download: the extraction is completed from
\* the step after the download, with the archive in tmp, and leaves the directory; the
\* ledger entry is marked only by the step that follows a completed extraction; the
\* worker's persist ends on a file that holds the mark; the archive in tmp is deleted
\* only by the task's last step, after that persist
StepsInOrder(id) ==
    /\ ExtractionCompleted(id) =>
           /\ pc[id] = "extract"
           /\ scratch[id]
           /\ disk'[InstallPath(addons_dict[id])] = "dir"
    /\ (~Marked(id) /\ Marked(id)') => (pc[id] = "lock" /\ pc'[id] = "marked")
    /\ (id \notin csDone /\ id \in csDone') => (pc[id] = "writing" /\ Recorded(id)')
    /\ (scratch[id] /\ ~scratch'[id]) => (pc[id] = "unlink" /\ id \in csDone)

\* C18 as stated: a worker's steps happen in a fixed order for each candidate. Its
\* ledger entry is marked installed only after its archive was downloaded with a byte
\* count equal to the declared content length and extracted into the target path, and
\* its scratch archive is deleted only after the ledger with the mark was persisted.
C18_WorkerStepsInOrder ==
    [][\A id \in DOMAIN addons_dict :
          /\ StepsInOrder(id)
          /\ ExtractionCompleted(id) =>
                 download[id].actual_length = download[id].header_length]_vars

\* C18 as amended: the same order of steps, the byte count being equal to the declared
\* content length whenever the server declared one (a response without Content-Length
\* is not checked for its length).
C18_WhenLengthDeclared ==
    [][\A id \in DOMAIN addons_dict :
          /\ StepsInOrder(id)
          /\ (ExtractionCompleted(id) /\ download[id].header_length > 0) =>
                 download[id].actual_length = download[id].header_length]_vars

\* one task went through all its steps and deleted its archive, its mark in the file,
\* while another has downloaded an archive of the declared length and not extracted it
C18_Witness ==
    \E id, other \in DOMAIN addons_dict :
        /\ pc[id] = "success"
        /\ ~scratch[id]
        /\ id \in csDone
        /\ Marked(id)
        /\ Recorded(id)
        /\ pc[other] = "extract"
        /\ scratch[other]
        /\ download[other] = [header_length |-> ArchiveSize, actual_length |-> ArchiveSize]

\* ---- C19
\* C19: the final reconciliation and persist starts only after every worker of the
\* pool has finished: from the moment write_installed_addons of the finally block has
\* begun, every task handed to the pool has run to its end, so that no worker runs,
\* marks the ledger or writes the ledger file meanwhile; also after an interrupt.
C19_FinalPersistAfterDrain ==
    final # "none" => \A id \in Ids : pc[id] \in Terminal \cup {"idle"}

\* ---- C20
\* the Consistency Check resets the entry of id, which the ledger records installed at
\* the catalog's revision or a later one
ResetByCheck(id) ==
    LET c == validate_addon_data([e |-> BuildEntry(id, addons_dict, installed_addons),
                                  d |-> disk, raised |-> FALSE], addons_dict)
    IN  /\ InstalledAtLatest(id)
        /\ ~c.raised
        /\ c.e.installed = "false"

\* the selection conditions other than the installed state
OtherConditionsHold(id) ==
    LET entry == addons_dict[id] IN
    /\ get_filter_function(args.filter, entry)
    /\ Approved(entry.status)
    /\ entry.type # "kart" => ("format" \in DOMAIN entry /\ entry.format > 5)

\* C20: candidates are selected against the reconciled ledger. When install_addons
\* makes its selection, an entry that the loaded ledger records installed at the latest
\* revision and that the Consistency Check resets to uninstalled is selected, provided
\* the other selection conditions hold.
C20_SelectedAgainstReconciled ==
    [][(mainPc = "install_addons" /\ mainPc' \in {"finally", "pool"}
            /\ ended' # "exception") =>
          \A id \in DOMAIN addons_dict :
              (ResetByCheck(id) /\ OtherConditionsHold(id)) => id \in addons_to_install']_vars

\* ---- C21
\* write_installed_addons without validation has written the file
PlainWriteEnded == ~warn /\ final = "persisted"

\* the installation state the ledger held for id before the call: that of its entry,
\* not installed at revision 0 when it had none
LocalState(id) ==
    IF id \in DOMAIN before.ledger
    THEN [installed |-> before.ledger[id].installed,
          installed_revision |-> before.ledger[id].installed_revision]
    ELSE [installed |-> "false", installed_revision |-> 0]

\* C21: reconciling without validation changes no installation state and touches no
\* disk state. Every id of the catalog or of the ledger has one entry in the output,
\* with the installed flag and revision its ledger entry had before (false and 0 when
\* it had none); the entry of an id the catalog does not hold is the ledger's entry,
\* every field unchanged; the ledger in memory and every path under the addons root
\* are as they were.
C21_PlainReconcileIsFrame ==
    PlainWriteEnded =>
        /\ disk = before.disk
        /\ installed_addons = before.ledger
        /\ Len(installed_xml.entries) = Cardinality(KnownIds(addons_dict, before.ledger))
        /\ \A id \in KnownIds(addons_dict, before.ledger) :
            /\ FileEntries(id) # {}
            /\ \A e \in FileEntries(id) :
                /\ e.installed = LocalState(id).installed
                /\ e.installed_revision = LocalState(id).installed_revision
                /\ id \notin DOMAIN addons_dict => e = before.ledger[id]

\* a plain write that carried over an orphan recorded installed whose path is no
\* directory, kept a catalog id installed whose path is no directory, and gave a
\* fresh entry to a catalog id the ledger did not hold
C21_Witness ==
    /\ PlainWriteEnded
    /\ \E id \in DOMAIN before.ledger \ DOMAIN addons_dict :
        /\ before.ledger[id].installed = "true"
        /\ disk[InstallPath(before.ledger[id])] # "dir"
    /\ \E id \in DOMAIN addons_dict :
        \/ /\ id \in DOMAIN before.ledger
           /\ before.ledger[id].installed = "true"
           /\ disk[InstallPath(addons_dict[id])] # "dir"
        \/ id \notin DOMAIN before.ledger

\* ---- C22
\* the task of id has extracted its archive without an exception
Extracted(id) == pc[id] \in {"lock", "marked", "writing", "unlink", "success"}

\* C22: once the archive of a candidate has been extracted, and so when it is installed
\* successfully, its target directory holds exactly the contents of the archive:
\* nothing of a directory that was there before is left.
C22_FullReplace ==
    \A id \in addons_to_install :
        Extracted(id) =>
            /\ disk[InstallPath(addons_dict[id])] = "dir"
            /\ tree[InstallPath(addons_dict[id])] = {"archive"}

\* a candidate the ledger held before the run, its directory there, is installed and
\* its directory holds the archive alone, while the directory of another candidate,
\* whose archive is downloaded, still holds the previous revision
C22_Witness ==
    \E id, other \in addons_to_install :
        /\ pc[id] = "success"
        /\ "icon_revision" \in DOMAIN installed_addons[id]
        /\ tree[InstallPath(addons_dict[id])] = {"archive"}
        /\ pc[other] = "extract"
        /\ disk[InstallPath(addons_dict[other])] = "dir"
        /\ tree[InstallPath(addons_dict[other])] = {"previous"}

\* ---- C23
\* the installed flag and revision a ledger holds for id: those of its entry, not
\* installed at revision 0 when it has none
InstallStateIn(ledger, id) ==
    [installed |-> Get(Get(ledger, id, EmptyDict), "installed", "false"),
     installed_revision |-> Get(Get(ledger, id, EmptyDict), "installed_revision", 0)]

\* C23: a candidate whose outcome is Error is not marked installed by this run. The
\* installed flag and revision of its ledger entry in memory, and of its entry in the
\* ledger file whenever the file is written out, are the ones the loaded ledger held
\* before the attempt.
C23_ErrorLeavesEntry ==
    \A id \in addons_to_install :
        pc[id] = "error" =>
            /\ InstallStateIn(installed_addons, id) = InstallStateIn(loaded, id)
            /\ installed_xml.complete =>
                \A e \in FileEntries(id) :
                    /\ e.installed = InstallStateIn(loaded, id).installed
                    /\ e.installed_revision = InstallStateIn(loaded, id).installed_revision

\* ---- C24
\* every selected candidate succeeded, install_addons returned and the final
\* reconciliation has written the ledger file
SuccessfulRunEnded == AllSucceeded /\ ended = "return" /\ final = "persisted"

\* what install_addons selects from the catalog with the given ledger and the filter
\* of the run
SelectedAgain(ledger) ==
    {id \in DOMAIN addons_dict : Selected(addons_dict[id], ledger, args.filter)}

\* C24: a successful run reaches a fixed point. After a run in which every selected
\* candidate succeeded and the final reconciliation ran, the selection with the same
\* catalog and filter and the ledger the run has left in the ledger file yields no
\* candidate.
C24_FixedPoint ==
    SuccessfulRunEnded => SelectedAgain(get_installed_addons(installed_xml)) = {}

\* ---- C25
\* the elements of the feed that carry the id
ElementsOf(id) ==
    {i \in 1..Len(feed.items) : "id" \in DOMAIN feed.items[i] /\ feed.items[i].id = id}

\* the approved bit, of a status attribute that may be missing
HasApprovedBit(entry) == "status" \in DOMAIN entry /\ entry.status % 2 = 1

\* the loaded ledger records id as installed, and the feed has elements for it, none
\* with the approved bit
InstalledButUnapprovedInFeed(id) ==
    /\ id \in DOMAIN loaded
    /\ loaded[id].installed = "true"
    /\ ElementsOf(id) # {}
    /\ \A i \in ElementsOf(id) : ~HasApprovedBit(feed.items[i])

\* C25: an addon the ledger records as installed and whose elements in the feed all
\* lack the approved bit is never in the catalog. Once the validating reconciliation
\* has written the file, the ledger in memory and the file hold its entry with the
\* status stored in the ledger; and when that stored status has the approved bit and
\* its directory was there, the entry is still installed at the stored revision and
\* the directory is still there.
C25_UnapprovedInFeedIsOrphan ==
    \A id \in Ids :
        InstalledButUnapprovedInFeed(id) =>
            /\ id \notin DOMAIN addons_dict
            /\ final = "persisted" =>
                /\ id \in DOMAIN installed_addons
                /\ Cardinality(FileEntries(id)) = 1
                /\ \A e \in FileEntries(id) :
                    /\ e = installed_addons[id]
                    /\ Restrict(e, {"status"}) = Restrict(loaded[id], {"status"})
                    /\ (HasApprovedBit(loaded[id]) /\ before.disk[InstallPath(loaded[id])] = "dir")
                        => /\ e.installed = "true"
                           /\ e.installed_revision = loaded[id].installed_revision
                           /\ disk[InstallPath(loaded[id])] = "dir"

\* the final write has ended for a ledger entry installed with an approved stored
\* status, its directory there, whose two elements in the feed lack the approved bit,
\* while the catalog holds another addon
C25_Witness ==
    /\ final = "persisted"
    /\ InstalledButUnapprovedInFeed(1)
    /\ Cardinality(ElementsOf(1)) >= 2
    /\ HasApprovedBit(loaded[1])
    /\ disk[InstallPath(loaded[1])] = "dir"
    /\ DOMAIN addons_dict # {}
    /\ \A e \in FileEntries(1) : e.installed = "true"

====
